---- MODULE Spec2Model ----
(***************************************************************************)
(* log4go (jeanphorn/log4go): the rotating file sink (FileLogWriter), its  *)
(* bounded record channel and single consumer goroutine, the console sink, *)
(* and the category dispatch of Filter.intLogf.                            *)
(*                                                                         *)
(* The directory that holds the log file is modelled as a function from    *)
(* the names present to [lines, mtime]; time is a day number `now`.        *)
(***************************************************************************)
EXTENDS Integers, Sequences, FiniteSets, TLC

VARIABLES
    w,          \* the FileLogWriter struct (README.md:135-167); w.file is the handle
    rec,        \* w.rec: the buffered record channel, oldest first
    closed,     \* close(w.rec) has happened
    run,        \* the consumer goroutine: "unborn" | "nil" | "running" | "done" | "failed"
    fs,         \* the directory: name -> [lines, mtime]
    now,        \* the current day number (time.Now())
    pc,         \* each producer's position
    pend,       \* a producer's locals in its logging call: the record and the Filter f
    nsub,       \* records each producer has created so far
    exited,     \* the process has ended (main returned, os.Exit, or a panic)
    cw,         \* the console sink's channel c.w
    cout,       \* what the console sink has printed
    Global,     \* the registry: category -> Filter [Level, sink, Category]
    hist,       \* history of the run, read by the properties only
    heap,       \* the LogRecords in use, by identity: the fields a consumer may
                \* assign (Message, Category) and Created; the channels hold pointers
    formatCache \* the package variable formatCache of FormatLogRecord

vars == <<w, rec, closed, run, fs, now, pc, pend, nsub, exited, cw, cout, Global, hist,
          heap, formatCache>>

-----------------------------------------------------------------------------
(* Bounds of the model *)

\* LogBufferLength is 32 in log4go; the channel capacity is scaled down
LogBufferLength == 2
NProducers == 2
\* records created in one run, all producers together
MaxRecs == 3
MaxDate == 2
\* days in a month of the model's calendar: time.Day() is the day of the month
DaysInMonth == 2
MaxRotates == 1
\* Rotate() calls of one run where the requests themselves are studied
MaxRequests == 2
\* logging calls with a closure that the level gate turns away
MaxSkips == 1
MaxCalls == 4
MaxRenders == 2

\* NewFileLogWriter: maxbackup <= 0 selects the default, 99 in log4go; scaled down
DefaultMaxBackup == 4

Producers == 1..NProducers
Dates == 0..MaxDate

\* time.Time.Day(): the day of the month, 1-based
DayOf(d) == (d % DaysInMonth) + 1

-----------------------------------------------------------------------------
(* File names *)

Live == [kind |-> "live", date |-> 0, seq |-> 0]
\* fmt.Sprintf(".%d", num)
CountName(num) == [kind |-> "count", date |-> 0, seq |-> num]
\* fmt.Sprintf(".%s.%d", modifieddate, n)
DailyName(d, n) == [kind |-> "daily", date |-> d, seq |-> n]
\* fname := "" : the empty path, which no rename can target
NoName == [kind |-> "none", date |-> 0, seq |-> 0]

(* Lines of text.  A line is [p, i, text]: p = 0 marks header, trailer and *)
(* content left by an earlier run; p >= 1 is the producer of a record.     *)
NL == "\n"
HeaderLine == [p |-> 0, i |-> 0, text |-> <<"H", NL>>]
TrailerLine == [p |-> 0, i |-> 1, text |-> <<"T", NL>>]
OldLine == [p |-> 0, i |-> 2, text |-> <<"o", NL>>]

\* Level: FINEST < FINE < DEBUG < TRACE < INFO < WARNING < ERROR < CRITICAL
LevelNames == <<"FINEST", "FINE", "DEBUG", "TRACE", "INFO", "WARNING", "ERROR", "CRITICAL">>
Lvl(name) == CHOOSE k \in 1..Len(LevelNames) : LevelNames[k] = name
FINEST == Lvl("FINEST")
DEBUG == Lvl("DEBUG")
INFO == Lvl("INFO")
WARNING == Lvl("WARNING")
ERROR == Lvl("ERROR")

\* a LogRecord; p and i identify it: the i-th record producer p created
LogRecord(p, i, lvl, msg, cat) == [p |-> p, i |-> i, lvl |-> lvl, msg |-> msg, cat |-> cat]
NoRec == LogRecord(0, 0, 0, <<>>, "")
Id(r) == [p |-> r.p, i |-> r.i]
NoCall == [rec |-> NoRec, f |-> ""]

-----------------------------------------------------------------------------
(* The directory *)

Exists(dir, name) == name \in DOMAIN dir

\* fileExist
fileExist(dir, name) == Exists(dir, name)

\* os.Rename(from, to): replaces an existing target; fails on a missing source,
\* on the empty path, and under an injected fault
RenameOK(dir, from, to, fault) ==
    /\ Exists(dir, from)
    /\ to # NoName
    /\ fault # "rename"

\* a rename that leaves every file where it is
RenameNothing(dir, from, to, fault) == dir

Rename(dir, from, to, fault) ==
    IF ~RenameOK(dir, from, to, fault) THEN dir
    ELSE IF from = to THEN dir
    ELSE [n \in (DOMAIN dir \ {from}) \cup {to} |-> IF n = to THEN dir[from] ELSE dir[n]]

\* an open that truncates the file
OpenTruncate(dir, name, day) ==
    [n \in DOMAIN dir \cup {name} |-> IF n = name THEN [lines |-> <<>>, mtime |-> day] ELSE dir[n]]

\* os.OpenFile(name, O_WRONLY|O_APPEND|O_CREATE): keeps what the file holds
OpenAppend(dir, name, day) ==
    IF Exists(dir, name) THEN dir
    ELSE [n \in DOMAIN dir \cup {name} |-> IF n = name THEN [lines |-> <<>>, mtime |-> day] ELSE dir[n]]

\* fmt.Fprint(w.file, text): appends to the file the handle was opened on;
\* a nil or closed handle, and an empty text, write nothing
Fprint(dir, handle, present, line, day) ==
    IF handle = "open" /\ present /\ Exists(dir, Live)
    THEN [dir EXCEPT ![Live] = [lines |-> Append(@.lines, line), mtime |-> day]]
    ELSE dir

\* w.file.Close()
CloseHandle(handle) == IF handle = "nil" THEN "nil" ELSE "closed"

-----------------------------------------------------------------------------
(* The rendered line of a record *)

\* a replacement that leaves the message as it is
SanitizeNothing(msg) == msg

\* strings.Replace(rec.Message, "\n", "\\n", -1)
RECURSIVE Sanitize(_)
Sanitize(msg) ==
    IF msg = <<>> THEN <<>>
    ELSE (IF Head(msg) = NL THEN <<"\\", "n">> ELSE <<Head(msg)>>) \o Sanitize(Tail(msg))

\* if w.sanitize { rec.Message = strings.Replace(...) }
Sanitized(ww, r) == IF ww.sanitize THEN [r EXCEPT !.msg = Sanitize(@)] ELSE r

-----------------------------------------------------------------------------
(* FormatLogRecord.  A text is a sequence of characters; a pattern is a    *)
(* text whose "%" starts a directive.  A time.Time is its Unix second, its *)
(* sub-second part and its zone.  There are two FormatLogRecord in the     *)
(* sources, told apart by `variant`: "pattlog" (pattlog.go) and "termlog"  *)
(* (the one in termlog.go, with its own directive letters).                *)

Instant(secs, sub, zone) == [secs |-> secs, sub |-> sub, zone |-> zone]
\* time.Now() on day d of the model's clock
At(d) == Instant(d + 1, 0, 0)

Digit(n) == <<"0", "1", "2", "3", "4", "5", "6", "7", "8", "9">>[n + 1]

\* the directives of the termlog variant that print a field of the wall clock
ClockDirectives == {"Y", "y", "m", "d", "H", "M", "S", "N", "W"}

\* var formatCache = &formatCacheType{}
EmptyCache ==
    [LastUpdateSeconds |-> 0,
     shortTime |-> <<>>, shortDate |-> <<>>, longTime |-> <<>>, longDate |-> <<>>,
     tMicroSecond |-> <<>>, tTimeZone |-> <<>>,
     tClock |-> [c \in ClockDirectives |-> <<>>]]

\* updated := &formatCacheType{...}: the strings of rec.Created; the wall
\* clock of an instant depends on its second and on its zone
Fill(t) ==
    [LastUpdateSeconds |-> t.secs,
     shortTime |-> <<"t", Digit(t.secs), Digit(t.zone)>>,
     shortDate |-> <<"d", Digit(t.secs), Digit(t.zone)>>,
     longTime |-> <<"T", Digit(t.secs), Digit(t.zone)>>,
     longDate |-> <<"D", Digit(t.secs), Digit(t.zone)>>,
     tMicroSecond |-> <<"o", Digit(t.sub)>>,
     tTimeZone |-> <<"z", Digit(t.zone)>>,
     tClock |-> [c \in ClockDirectives |-> <<c, Digit(t.secs), Digit(t.zone)>>]]

\* if cache.LastUpdateSeconds != secs { ...; cache = *updated; formatCache = updated }
Refresh(cache, t) == IF cache.LastUpdateSeconds # t.secs THEN Fill(t) ELSE cache

\* rec.Created.Format(layout)
TimeFormat(t, layout) == <<"F", Digit(t.secs), Digit(t.sub), Digit(t.zone)>> \o layout

\* the index of the first c in text, 0 when there is none
RECURSIVE IndexOf(_, _, _)
IndexOf(text, c, k) ==
    IF k > Len(text) THEN 0 ELSE IF text[k] = c THEN k ELSE IndexOf(text, c, k + 1)

\* strings.Replace of "%D", "{" and "}" by "" in the matched text
RECURSIVE Strip(_)
Strip(text) ==
    IF text = <<>> THEN <<>>
    ELSE IF Len(text) >= 2 /\ SubSeq(text, 1, 2) = <<"%", "D">> THEN Strip(SubSeq(text, 3, Len(text)))
    ELSE IF Head(text) \in {"{", "}"} THEN Strip(Tail(text))
    ELSE <<Head(text)>> \o Strip(Tail(text))

\* changeDttmFormat: the first two %D{layout} become rec.Created.Format(layout)
RECURSIVE changeDttmFormat(_, _, _)
changeDttmFormat(format, t, i) ==
    IF format = <<>> THEN <<>>
    ELSE LET close == IndexOf(format, "}", 4)
         IN  IF i < 2 /\ Len(format) >= 4 /\ SubSeq(format, 1, 3) = <<"%", "D", "{">> /\ close # 0
             THEN TimeFormat(t, Strip(SubSeq(format, 1, close)))
                      \o changeDttmFormat(SubSeq(format, close + 1, Len(format)), t, i + 1)
             ELSE <<Head(format)>> \o changeDttmFormat(Tail(format), t, i)

\* bytes.Split(formatByte, []byte{'%'})
RECURSIVE Split(_)
Split(text) ==
    IF text = <<>> THEN <<<<>>>>
    ELSE LET rest == Split(Tail(text))
         IN  IF Head(text) = "%" THEN <<<<>>>> \o rest
             ELSE <<<<Head(text)>> \o Head(rest)>> \o Tail(rest)

\* levelStrings[rec.Level]
levelStrings == <<"FNST", "FINE", "DEBG", "TRAC", "INFO", "WARN", "EROR", "CRIT">>

\* rec.Source, and its part after the last "/"
Source == <<"p", "/", "f">>
RECURSIVE LastElement(_)
LastElement(text) ==
    IF IndexOf(text, "/", 1) = 0 THEN text
    ELSE LastElement(SubSeq(text, IndexOf(text, "/", 1) + 1, Len(text)))

\* the record FormatLogRecord reads
Rec(lvl, msg, cat, created) ==
    [Level |-> lvl, Source |-> Source, Message |-> msg, Category |-> cat, Created |-> created]

\* case 'C': if len(rec.Category) == 0 { rec.Category = "DEFAULT" }
CategoryOf(r) == IF r.Category = "" THEN "DEFAULT" ELSE r.Category

\* a switch that writes the character of every directive
DirectiveEcho(variant, c, cache, r) == <<c>>

\* the cases of the switch on piece[0]
Known(variant) ==
    IF variant = "pattlog" THEN {"T", "t", "D", "d", "L", "S", "s", "M", "C"}
    ELSE ClockDirectives \cup {"D", "o", "z", "A", "a", "L", "I", "C"}

\* the switch on piece[0]: what a directive writes; nothing for an unknown one
Directive(variant, c, cache, r) ==
    IF c = "L" THEN <<levelStrings[r.Level]>>
    ELSE IF c = "C" THEN <<CategoryOf(r)>>
    ELSE IF variant = "pattlog" THEN
        CASE c = "T" -> cache.longTime
          [] c = "t" -> cache.shortTime
          [] c = "D" -> cache.longDate
          [] c = "d" -> cache.shortDate
          [] c = "S" -> r.Source
          [] c = "s" -> LastElement(r.Source)
          [] c = "M" -> r.Message
          [] OTHER -> <<>>
    ELSE
        CASE c = "D" -> cache.longDate
          [] c \in ClockDirectives -> cache.tClock[c]
          [] c = "o" -> cache.tMicroSecond
          [] c = "z" -> cache.tTimeZone
          [] c = "A" -> r.Source
          [] c = "a" -> LastElement(r.Source)
          [] c = "I" -> r.Message
          [] OTHER -> <<>>

\* for i, piece := range pieces { ... }
RECURSIVE RenderPieces(_, _, _, _, _)
RenderPieces(variant, pieces, i, cache, r) ==
    IF i > Len(pieces) THEN <<>>
    ELSE LET piece == pieces[i]
             this == IF i > 1 /\ piece # <<>>
                     THEN Directive(variant, piece[1], cache, r) \o Tail(piece)
                     ELSE piece
         IN  this \o RenderPieces(variant, pieces, i + 1, cache, r)

\* whether a piece is the directive %C
RECURSIVE UsesCategory(_, _)
UsesCategory(pieces, i) ==
    /\ i <= Len(pieces)
    /\ \/ pieces[i] # <<>> /\ pieces[i][1] = "C"
       \/ UsesCategory(pieces, i + 1)

\* FormatLogRecord(format, rec) with formatCache = cache: the text, the
\* cache it leaves and the Category it leaves in rec
FormatLogRecordIn(variant, format, r, cache) ==
    IF format = <<>> THEN [out |-> <<>>, cache |-> cache, Category |-> r.Category]
    ELSE LET c == Refresh(cache, r.Created)
             pieces == Split(changeDttmFormat(format, r.Created, 0))
         IN  [out |-> RenderPieces(variant, pieces, 1, c, r) \o <<NL>>,
              cache |-> c,
              Category |-> IF UsesCategory(pieces, 2) THEN CategoryOf(r) ELSE r.Category]

\* FormatLogRecord under the pattern "%M", which reads nothing of the cache:
\* the message and one appended newline
FormatLogRecord(r) ==
    [p |-> r.p, i |-> r.i,
     text |-> FormatLogRecordIn("pattlog", <<"%", "M">>, Rec(r.lvl, r.msg, r.cat, At(0)), EmptyCache).out]

\* the record a pointer held by a channel leads to, as it is now
Current(h, r) == [r EXCEPT !.msg = h[Id(r)].Message, !.cat = h[Id(r)].Category]

\* a new LogRecord
Alloc(h, r, created) ==
    [id \in DOMAIN h \cup {Id(r)} |->
        IF id = Id(r) THEN [Message |-> r.msg, Category |-> r.cat, Created |-> created]
        ELSE h[id]]

\* the records some channel or some caller still holds
Reachable(recq, cwq, pnd) ==
    {Id(recq[k]) : k \in 1..Len(recq)} \cup {Id(cwq[k]) : k \in 1..Len(cwq)}
        \cup {Id(pnd[p].rec) : p \in DOMAIN pnd}

\* the heap without the records nothing leads to any more
Collect(h, recq, cwq, pnd) ==
    [id \in DOMAIN h \cap Reachable(recq, cwq, pnd) |-> h[id]]

\* the pass rendered a header or a trailer that is not empty
PassRendered(ww, res) == (ww.file # "nil" /\ ww.trailer) \/ (~res.err /\ ww.header)

-----------------------------------------------------------------------------
(* FileLogWriter.getCurrBackup and FileLogWriter.intRotate *)

RECURSIVE FirstFree(_, _, _, _)
FirstFree(dir, day, i, maxbackup) ==
    IF i >= maxbackup THEN 1
    ELSE IF ~fileExist(dir, DailyName(day, i)) THEN i
    ELSE FirstFree(dir, day, i + 1, maxbackup)

getCurrBackup(ww, dir, day) == FirstFree(dir, day, 1, ww.maxbackup)

\* for ; num >= 1; num-- { if Lstat(name.num) == nil { os.Rename(name.num, name.num+1) } }
RECURSIVE ShiftBackups(_, _, _)
ShiftBackups(dir, num, fault) ==
    IF num < 1 THEN dir
    ELSE ShiftBackups(
            IF Exists(dir, CountName(num))
            THEN Rename(dir, CountName(num), CountName(num + 1), fault)
            ELSE dir,
            num - 1, fault)

\* fname after the loop: the last name the loop formed, "" when it never ran
CountTarget(maxbackup) == IF maxbackup - 1 >= 1 THEN CountName(1) ELSE NoName

\* a counter that never wraps
NextBackupNoWrap(currbackup, maxbackup) == currbackup + 1

\* if w.currbackup >= w.maxbackup { w.currbackup = 1 }
NextBackup(currbackup, maxbackup) ==
    IF currbackup + 1 >= maxbackup THEN 1 ELSE currbackup + 1

\* a daily name that carries today's date
DailyTargetToday(ww, mod, day) ==
    IF DayOf(day) # DayOf(mod) THEN DailyName(day, 0) ELSE DailyName(day, ww.currbackup)

\* the name the daily branch renames the live file to
DailyTarget(ww, mod, day) ==
    IF DayOf(day) # DayOf(mod) THEN DailyName(mod, 0) ELSE DailyName(mod, ww.currbackup)

(* One rotation pass.  fault is "none", "rename" (every os.Rename of the   *)
(* pass fails) or "open" (os.OpenFile fails).  The result holds the new    *)
(* struct, the new directory, whether an error was returned, and the name  *)
(* the live file was renamed to (NoName when no rename was attempted).     *)
intRotate(ww, dir, day, fault) ==
    LET dir1 == IF ww.file # "nil"
                THEN Fprint(dir, ww.file, ww.trailer, TrailerLine, day)
                ELSE dir
        w1 == [ww EXCEPT !.file = CloseHandle(ww.file)]
        moving == ww.rotate /\ Exists(dir1, Live)
        mod == IF moving THEN dir1[Live].mtime ELSE 0
        w2 == IF moving THEN [w1 EXCEPT !.daily_opendate = DayOf(mod)] ELSE w1
        target == IF ~moving THEN NoName
                  ELSE IF ww.daily THEN DailyTarget(ww, mod, day)
                  ELSE CountTarget(ww.maxbackup)
        w3 == IF moving /\ ww.daily
              THEN [w2 EXCEPT !.currbackup =
                        IF DayOf(day) # DayOf(mod) THEN 1
                        ELSE NextBackup(ww.currbackup, ww.maxbackup)]
              ELSE w2
        dir2 == IF moving /\ ~ww.daily
                THEN ShiftBackups(dir1, ww.maxbackup - 1, fault)
                ELSE dir1
        renameErr == moving /\ ~RenameOK(dir2, Live, target, fault)
        dir3 == IF moving THEN Rename(dir2, Live, target, fault) ELSE dir2
        openErr == fault = "open"
        dir4 == OpenAppend(dir3, Live, day)
        dir5 == Fprint(dir4, "open", ww.header, HeaderLine, day)
        w5 == [w3 EXCEPT !.file = "open",
                         !.daily_opendate = DayOf(day),
                         !.maxlines_curlines = 0,
                         !.maxsize_cursize = 0]
    IN  IF renameErr THEN [w |-> w3, fs |-> dir3, err |-> TRUE, target |-> target, moved |-> FALSE]
        ELSE IF openErr THEN [w |-> w3, fs |-> dir3, err |-> TRUE, target |-> target, moved |-> moving]
        ELSE [w |-> w5, fs |-> dir5, err |-> FALSE, target |-> target, moved |-> moving]

\* the deferred function of the consumer goroutine: trailer, then Close
Deferred(ww, dir, day, broken) ==
    [w |-> [ww EXCEPT !.file = CloseHandle(ww.file)],
     fs |-> IF ww.file # "nil" /\ ~broken
            THEN Fprint(dir, ww.file, ww.trailer, TrailerLine, day)
            ELSE dir]

\* a condition under which a threshold of 0 counts as reached
NeedRotateAtZero(ww, day) ==
    \/ ww.maxlines_curlines >= ww.maxlines
    \/ ww.maxsize_cursize >= ww.maxsize
    \/ ww.daily /\ DayOf(day) # ww.daily_opendate

\* a size condition that waits until the threshold is exceeded
NeedRotateOver(ww, day) ==
    \/ ww.maxlines > 0 /\ ww.maxlines_curlines >= ww.maxlines
    \/ ww.maxsize > 0 /\ ww.maxsize_cursize > ww.maxsize
    \/ ww.daily /\ DayOf(day) # ww.daily_opendate

\* a count of lines where bytes are meant
FprintCountLines(line) == 1

\* n, err := fmt.Fprint(w.file, ...): the bytes written
FprintCount(line) == Len(line.text)

\* a condition that lets one line too many through
NeedRotateLate(ww, day) ==
    \/ ww.maxlines > 0 /\ ww.maxlines_curlines > ww.maxlines
    \/ ww.maxsize > 0 /\ ww.maxsize_cursize >= ww.maxsize
    \/ ww.daily /\ DayOf(day) # ww.daily_opendate

\* the rotation condition the consumer evaluates for each record
NeedRotate(ww, day) ==
    \/ ww.maxlines > 0 /\ ww.maxlines_curlines >= ww.maxlines
    \/ ww.maxsize > 0 /\ ww.maxsize_cursize >= ww.maxsize
    \/ ww.daily /\ DayOf(day) # ww.daily_opendate

\* a consumer that loops on after an error
AfterHandlerGoOn(err) == "running"

\* the consumer returns on an error and loops otherwise
AfterHandler(err) == IF err THEN "failed" ELSE "running"

-----------------------------------------------------------------------------
(* Initial state: the process has started, no sink is constructed yet *)

NoWriter ==
    [file |-> "nil", header |-> FALSE, trailer |-> FALSE,
     maxlines |-> 0, maxlines_curlines |-> 0,
     maxsize |-> 0, maxsize_cursize |-> 0,
     daily |-> FALSE, daily_opendate |-> 0,
     rotate |-> FALSE, maxbackup |-> 0, currbackup |-> 0,
     sanitize |-> FALSE]

NoPass == [by |-> "none", fault |-> "none", target |-> NoName, moved |-> FALSE,
           err |-> FALSE, mod |-> 0, trailed |-> FALSE, day |-> 0, seq |-> 0]

NoHist ==
    [written |-> <<>>,      \* ids of the records written, in the order of the writes
     sent |-> {},           \* ids of the records whose LogWrite has returned
     passes |-> 0,          \* rotation passes begun, the one of the construction included
     sincePass |-> 0,       \* records written since the last rotation pass
     last |-> NoPass,       \* the last rotation pass
     ioerr |-> "none",      \* the I/O error the consumer met
     touched |-> {},        \* struct fields accessed outside the consumer after construction
     rotates |-> 0,         \* Rotate() calls made
     marks |-> {},          \* per returned Rotate(): the caller p, the records n it had
                            \* created and the number k of records written by then
     evals |-> 0,           \* evaluations of closures given to logging calls
     lazy |-> 0,            \* calls that gave a closure to intLogc and passed the gate
     eager |-> 0,           \* calls of Warn, Error, Critical that were given a closure
     skipped |-> 0,         \* logging calls with a closure that the gate turned away
     fault |-> "none"]      \* where a logging call has panicked

File(lines, mtime) == [lines |-> lines, mtime |-> mtime]
EmptyDir == [n \in {} |-> File(<<>>, 0)]
DirOf(names, f) == [n \in names |-> f]

NoHeap == [id \in {} |-> [Message |-> <<>>, Category |-> "", Created |-> At(0)]]

InitCommon ==
    /\ w = NoWriter
    /\ rec = <<>>
    /\ closed = FALSE
    /\ run = "unborn"
    /\ pc = [p \in Producers |-> "idle"]
    /\ pend = [p \in Producers |-> NoCall]
    /\ nsub = [p \in Producers |-> 0]
    /\ exited = FALSE
    /\ cw = <<>>
    /\ cout = <<>>
    /\ hist = NoHist
    /\ heap = NoHeap
    /\ formatCache = EmptyCache

\* no category is registered: the sink is used directly
NoRegistry == [c \in {} |-> [Level |-> 0, sink |-> "", Category |-> ""]]

-----------------------------------------------------------------------------
(* Construction and configuration *)

PassRecord(by, fault, ww, dir, day, res) ==
    [by |-> by, fault |-> IF res.err THEN fault ELSE "none", target |-> res.target, moved |-> res.moved,
     err |-> res.err,
     mod |-> IF Exists(dir, Live) THEN dir[Live].mtime ELSE 0,
     trailed |-> ww.file = "open" /\ ww.trailer /\ Exists(dir, Live),
     day |-> day, seq |-> ww.currbackup]

\* NewFileLogWriter(fname, rotate, daily, maxbackup)
NewFileLogWriter(rotate, daily, maxbackup, fault) ==
    /\ run = "unborn" /\ ~exited
    /\ LET mb == IF maxbackup <= 0 THEN DefaultMaxBackup ELSE maxbackup
           w0 == [NoWriter EXCEPT !.daily = daily, !.rotate = rotate, !.maxbackup = mb]
           w1 == [w0 EXCEPT !.currbackup = getCurrBackup(w0, fs, now)]
           res == intRotate(w1, fs, now, fault)
       IN  /\ w' = res.w
           /\ fs' = res.fs
           /\ run' = IF res.err THEN "nil" ELSE "running"
           /\ hist' = [hist EXCEPT !.passes = @ + 1,
                                   !.sincePass = 0,
                                   !.last = PassRecord("open", fault, w1, fs, now, res)]
           /\ formatCache' = IF PassRendered(w1, res) THEN Refresh(formatCache, At(now))
                             ELSE formatCache
    /\ UNCHANGED <<rec, closed, now, pc, pend, nsub, exited, cw, cout, Global, heap>>

\* the Set* methods "must be called before the first log message is written"
Configuring ==
    /\ run = "running" /\ ~exited /\ ~closed
    /\ \A p \in Producers : nsub[p] = 0 /\ pc[p] = "idle"

Touch(fields) == [hist EXCEPT !.touched = @ \cup fields]

SetRotateLines(maxlines) ==
    /\ Configuring
    /\ w.maxlines # maxlines
    /\ w' = [w EXCEPT !.maxlines = maxlines]
    /\ hist' = Touch({"maxlines"})
    /\ UNCHANGED <<rec, closed, run, fs, now, pc, pend, nsub, exited, cw, cout, Global, heap, formatCache>>

SetRotateSize(maxsize) ==
    /\ Configuring
    /\ w.maxsize # maxsize
    /\ w' = [w EXCEPT !.maxsize = maxsize]
    /\ hist' = Touch({"maxsize"})
    /\ UNCHANGED <<rec, closed, run, fs, now, pc, pend, nsub, exited, cw, cout, Global, heap, formatCache>>

SetRotateDaily(daily) ==
    /\ Configuring
    /\ w.daily # daily
    /\ w' = [w EXCEPT !.daily = daily]
    /\ hist' = Touch({"daily"})
    /\ UNCHANGED <<rec, closed, run, fs, now, pc, pend, nsub, exited, cw, cout, Global, heap, formatCache>>

SetRotate(rotate) ==
    /\ Configuring
    /\ w.rotate # rotate
    /\ w' = [w EXCEPT !.rotate = rotate]
    /\ hist' = Touch({"rotate"})
    /\ UNCHANGED <<rec, closed, run, fs, now, pc, pend, nsub, exited, cw, cout, Global, heap, formatCache>>

\* SetRotateMaxBackup and SetMaxbackup
SetRotateMaxBackup(maxbackup) ==
    /\ Configuring
    /\ w.maxbackup # maxbackup
    /\ w' = [w EXCEPT !.maxbackup = maxbackup]
    /\ hist' = Touch({"maxbackup"})
    /\ UNCHANGED <<rec, closed, run, fs, now, pc, pend, nsub, exited, cw, cout, Global, heap, formatCache>>

SetSanitize(sanitize) ==
    /\ Configuring
    /\ w.sanitize # sanitize
    /\ w' = [w EXCEPT !.sanitize = sanitize]
    /\ hist' = Touch({"sanitize"})
    /\ UNCHANGED <<rec, closed, run, fs, now, pc, pend, nsub, exited, cw, cout, Global, heap, formatCache>>

\* SetHeadFoot writes the header at once when no line has been counted yet
SetHeadFoot(head, foot) ==
    /\ Configuring
    /\ w.header # head \/ w.trailer # foot
    /\ w' = [w EXCEPT !.header = head, !.trailer = foot]
    /\ fs' = IF w.maxlines_curlines = 0 THEN Fprint(fs, w.file, head, HeaderLine, now) ELSE fs
    /\ hist' = Touch({"header", "trailer", "maxlines_curlines", "file"})
    /\ formatCache' = IF w.maxlines_curlines = 0 /\ head THEN Refresh(formatCache, At(now))
                      ELSE formatCache
    /\ UNCHANGED <<rec, closed, run, now, pc, pend, nsub, exited, cw, cout, Global, heap>>

-----------------------------------------------------------------------------
(* Producers: LogWrite, Rotate, Close *)

SinkBuilt == run \in {"running", "done", "failed"}

RECURSIVE SumTo(_, _)
SumTo(f, n) == IF n = 0 THEN 0 ELSE f[n] + SumTo(f, n - 1)
Created == SumTo(nsub, NProducers)

\* a producer creates a record and calls w.LogWrite(rec)
CallLogWrite(p, msg) ==
    /\ SinkBuilt /\ ~exited
    /\ pc[p] = "idle"
    /\ Created < MaxRecs
    /\ nsub' = [nsub EXCEPT ![p] = @ + 1]
    /\ pend' = [pend EXCEPT ![p] = [rec |-> LogRecord(p, nsub[p] + 1, INFO, msg, ""), f |-> ""]]
    /\ heap' = Alloc(heap, LogRecord(p, nsub[p] + 1, INFO, msg, ""), At(now))
    /\ pc' = [pc EXCEPT ![p] = "LogWrite"]
    /\ UNCHANGED <<w, rec, closed, run, fs, now, exited, cw, cout, Global, hist, formatCache>>

\* a send that never waits for room
CanSendAlways(queue) == TRUE

\* whether the send w.rec <- rec can complete: the buffer has room
CanSend(queue) == Len(queue) < LogBufferLength

\* a send that puts the record in front of the waiting ones
SendFront(queue, r) == <<r>> \o queue

\* the channel after the send
Send(queue, r) == Append(queue, r)

\* w.rec <- rec completes
LogWrite(p) ==
    /\ ~exited
    /\ pc[p] = "LogWrite"
    /\ ~closed
    /\ CanSend(rec)
    /\ rec' = Send(rec, pend[p].rec)
    /\ pc' = [pc EXCEPT ![p] = "idle"]
    /\ pend' = [pend EXCEPT ![p] = NoCall]
    /\ hist' = [hist EXCEPT !.sent = @ \cup {Id(pend[p].rec)}]
    /\ UNCHANGED <<w, closed, run, fs, now, nsub, exited, cw, cout, Global, heap, formatCache>>

\* a send on the closed channel panics, and the panic ends the process
SendOnClosed(p) ==
    /\ ~exited
    /\ pc[p] = "LogWrite"
    /\ closed
    /\ exited' = TRUE
    /\ UNCHANGED <<w, rec, closed, run, fs, now, pc, pend, nsub, cw, cout, Global, hist, heap, formatCache>>

\* a producer calls w.Rotate() and waits on the unbuffered channel w.rot;
\* max bounds the number of calls of a run
CallRotateUpTo(p, max) ==
    /\ SinkBuilt /\ ~exited
    /\ pc[p] = "idle"
    /\ hist.rotates < max
    /\ pc' = [pc EXCEPT ![p] = "Rotate"]
    /\ hist' = [hist EXCEPT !.rotates = @ + 1]
    /\ UNCHANGED <<w, rec, closed, run, fs, now, pend, nsub, exited, cw, cout, Global, heap, formatCache>>

CallRotate(p) == CallRotateUpTo(p, MaxRotates)

\* FileLogWriter.Close: close(w.rec); w.file.Sync()
Close ==
    /\ SinkBuilt /\ ~exited
    /\ ~closed
    /\ closed' = TRUE
    /\ hist' = Touch({"file"})
    /\ UNCHANGED <<w, rec, run, fs, now, pc, pend, nsub, exited, cw, cout, Global, heap, formatCache>>

\* after Close the caller goes on and the process ends (os.Exit, return of main)
Exit ==
    /\ closed /\ ~exited
    /\ exited' = TRUE
    /\ UNCHANGED <<w, rec, closed, run, fs, now, pc, pend, nsub, cw, cout, Global, hist, heap, formatCache>>

\* midnight
Tick ==
    /\ ~exited
    /\ now < MaxDate
    /\ now' = now + 1
    /\ UNCHANGED <<w, rec, closed, run, fs, pc, pend, nsub, exited, cw, cout, Global, hist, heap, formatCache>>

-----------------------------------------------------------------------------
(* The consumer goroutine of the file sink *)

\* the record the consumer receives from w.rec
Receive(queue) == Head(queue)
\* the channel after the receive
Received(queue) == Tail(queue)

\* a receive that releases every caller waiting on w.rot
AcceptAll(pcs, p) == [q \in DOMAIN pcs |-> IF pcs[q] = "Rotate" THEN "idle" ELSE pcs[q]]

\* <-w.rot: the receive on the unbuffered channel completes the send of one
\* waiting caller, whose Rotate() returns
Accept(pcs, p) == [pcs EXCEPT ![p] = "idle"]

\* a goroutine that receives whatever became of its loop
InLoopAlways(state) == state \in {"running", "done", "failed"}

\* the consumer is in its for/select loop: it has not returned from it
InLoop(state) == state = "running"

\* case <-w.rot: the waiting Rotate() returns, then the pass runs
ConsumeRot(p, fault) ==
    /\ InLoop(run) /\ ~exited
    /\ pc[p] = "Rotate"
    /\ LET res == intRotate(w, fs, now, fault)
           end == IF res.err THEN Deferred(res.w, res.fs, now, FALSE)
                  ELSE [w |-> res.w, fs |-> res.fs]
       IN  /\ w' = end.w
           /\ fs' = end.fs
           /\ run' = AfterHandler(res.err)
           /\ hist' = [hist EXCEPT !.passes = @ + 1,
                                   !.sincePass = 0,
                                   !.last = PassRecord("rot", fault, w, fs, now, res),
                                   !.ioerr = IF res.err THEN fault ELSE @,
                                   !.marks = @ \cup {[p |-> p, n |-> nsub[p],
                                                       k |-> Len(hist.written)]}]
           /\ formatCache' =
                 IF PassRendered(w, res) \/ (res.err /\ res.w.trailer)
                 THEN Refresh(formatCache, At(now)) ELSE formatCache
    /\ pc' = Accept(pc, p)
    /\ UNCHANGED <<rec, closed, now, pend, nsub, exited, cw, cout, Global, heap>>

\* case rec, ok := <-w.rec with ok: rotate if needed, write, count
ConsumeRec(fault) ==
    /\ run = "running" /\ ~exited
    /\ rec # <<>>
    /\ LET r == Receive(rec)
           rotating == NeedRotate(w, now)
           res == IF rotating THEN intRotate(w, fs, now, fault)
                  ELSE [w |-> w, fs |-> fs, err |-> FALSE, target |-> NoName, moved |-> FALSE]
           san == Sanitized(res.w, Current(heap, r))
           line == FormatLogRecord(san)
           n == FprintCount(line)
           writeErr == ~res.err /\ fault = "write"
           err == res.err \/ writeErr
           c1 == IF rotating /\ PassRendered(w, res) THEN Refresh(formatCache, At(now))
                 ELSE formatCache
           c2 == IF res.err THEN c1 ELSE Refresh(c1, heap[Id(r)].Created)
           c3 == IF err /\ res.w.file # "nil" /\ res.w.trailer THEN Refresh(c2, At(now)) ELSE c2
           h1 == IF res.err THEN heap ELSE [heap EXCEPT ![Id(r)].Message = san.msg]
           wrote == [w |-> [res.w EXCEPT !.maxlines_curlines = @ + 1,
                                          !.maxsize_cursize = @ + n],
                     fs |-> Fprint(res.fs, res.w.file, TRUE, line, now)]
           end == IF err THEN Deferred(res.w, res.fs, now, writeErr) ELSE wrote
       IN  /\ fault = "write" \/ rotating \/ fault = "none"
           /\ w' = end.w
           /\ fs' = end.fs
           /\ run' = AfterHandler(err)
           /\ hist' = [hist EXCEPT
                 !.passes = IF rotating THEN @ + 1 ELSE @,
                 !.last = IF rotating THEN PassRecord("rec", fault, w, fs, now, res) ELSE @,
                 !.sincePass = IF err THEN @ ELSE IF rotating THEN 1 ELSE @ + 1,
                 !.written = IF err THEN @ ELSE Append(@, Id(r)),
                 !.ioerr = IF err THEN fault ELSE @]
           /\ formatCache' = c3
           /\ heap' = Collect(h1, Received(rec), cw, pend)
    /\ rec' = Received(rec)
    /\ UNCHANGED <<closed, now, pc, pend, nsub, exited, cw, cout, Global>>

\* case rec, ok := <-w.rec with !ok: the channel is closed and drained
ConsumeClosed ==
    /\ run = "running" /\ ~exited
    /\ rec = <<>> /\ closed
    /\ LET end == Deferred(w, fs, now, FALSE)
       IN  w' = end.w /\ fs' = end.fs
    /\ formatCache' = IF w.file # "nil" /\ w.trailer THEN Refresh(formatCache, At(now))
                      ELSE formatCache
    /\ run' = "done"
    /\ UNCHANGED <<rec, closed, now, pc, pend, nsub, exited, cw, cout, Global, hist, heap>>

-----------------------------------------------------------------------------
(* The console sink and the dispatch of Filter.intLogf *)

Filter(level, sink, category) == [Level |-> level, sink |-> sink, Category |-> category]

\* LOGGER(category): the Filter the call logs through, its Category patched in
\* the registry; Global["stdout"] is nil when no console is registered, and
\* the assignment to its field panics
LOGGER(reg, category) ==
    IF category \in DOMAIN reg
    THEN [f |-> category, panic |-> FALSE,
          reg |-> [reg EXCEPT ![category].Category = category]]
    ELSE IF "stdout" \in DOMAIN reg
    THEN [f |-> "stdout", panic |-> FALSE,
          reg |-> [reg EXCEPT !["stdout"].Category = "DEFAULT"]]
    ELSE [f |-> "", panic |-> TRUE, reg |-> reg]

\* if lvl >= f.Level { skip = false }
Accepts(filter, lvl) == lvl >= filter.Level

\* a default sink that is offered every record
ToDefaultAlways(reg, lvl) == TRUE

\* if lvl > default_filter.Level { default_filter.LogWrite(rec) }
ToDefault(reg, lvl) == lvl > reg["stdout"].Level

\* if f.Category != "DEFAULT" && f.Category != "stdout" { f.LogWrite(rec) }
ToOwn(filter) == filter.Category # "DEFAULT" /\ filter.Category # "stdout"

AfterDefault(reg, f) == IF ToOwn(reg[f]) THEN "toOwn" ELSE "idle"

\* a closure that is evaluated whatever the gate says
EvaluatedAlways(closure, eager, accepted) == IF closure THEN 1 ELSE 0

\* how many times a call evaluates the closure it was given: Warn, Error and
\* Critical call it before the gate (eager); intLogc calls it once, in the
\* record it builds after the gate
Evaluated(closure, eager, accepted) ==
    IF ~closure THEN 0 ELSE IF eager \/ accepted THEN 1 ELSE 0

\* the history of a call that was given a closure
Closure(h, closure, eager, accepted) ==
    [h EXCEPT !.evals = @ + Evaluated(closure, eager, accepted),
              !.lazy = IF closure /\ ~eager /\ accepted THEN @ + 1 ELSE @,
              !.eager = IF closure /\ eager THEN @ + 1 ELSE @,
              !.skipped = IF closure /\ ~accepted THEN @ + 1 ELSE @]

\* What intLogf, intLogc and Log do alike, up to the first send: the gate
\* lvl >= f.Level, the record, default_filter := Global["stdout"] and the
\* two conditions.  closure tells that the message is the result of a
\* closure, eager that the caller has evaluated it before the gate (Warn,
\* Error and Critical do).  A nil Filter makes LOGGER panic and a nil
\* default_filter makes the call panic; a panic ends the process.
IntLog(p, category, lvl, msg, closure, eager) ==
    /\ SinkBuilt /\ ~exited
    /\ pc[p] = "idle"
    /\ Created < MaxRecs
    /\ LET res == LOGGER(Global, category)
       IN  IF res.panic
           THEN /\ exited' = TRUE
                /\ hist' = [hist EXCEPT !.fault = "LOGGER"]
                /\ UNCHANGED <<Global, pc, pend, nsub, heap>>
           ELSE IF ~Accepts(res.reg[res.f], lvl)
           THEN /\ closure => hist.skipped < MaxSkips
                /\ Global' = res.reg
                /\ hist' = Closure(hist, closure, eager, FALSE)
                /\ UNCHANGED <<exited, pc, pend, nsub, heap>>
           ELSE LET r == LogRecord(p, nsub[p] + 1, lvl, msg, res.reg[res.f].Category)
                IN  /\ Global' = res.reg
                    /\ nsub' = [nsub EXCEPT ![p] = @ + 1]
                    /\ pend' = [pend EXCEPT ![p] = [rec |-> r, f |-> res.f]]
                    /\ IF "stdout" \notin DOMAIN res.reg
                       THEN /\ exited' = TRUE
                            /\ hist' = [Closure(hist, closure, eager, TRUE)
                                           EXCEPT !.fault = "default_filter"]
                            /\ UNCHANGED <<pc, heap>>
                       ELSE LET next == IF ToDefault(res.reg, lvl) THEN "toDefault"
                                        ELSE AfterDefault(res.reg, res.f)
                            IN  /\ exited' = exited
                                /\ hist' = Closure(hist, closure, eager, TRUE)
                                /\ pc' = [pc EXCEPT ![p] = next]
                                /\ heap' = IF next = "idle" THEN heap ELSE Alloc(heap, r, At(now))
    /\ UNCHANGED <<w, rec, closed, run, fs, now, cw, cout, formatCache>>

\* LOGGER(category).Logf(lvl, msg): Filter.intLogf
CallLog(p, category, lvl, msg) == IntLog(p, category, lvl, msg, FALSE, FALSE)

\* LOGGER(category).Logc(lvl, closure) and the leveled methods given a
\* closure: Finest .. Info pass it to Filter.intLogc; Warn, Error and
\* Critical call it themselves and pass the result to intLogf
CallLogc(p, category, lvl, msg, leveled) ==
    IntLog(p, category, lvl, msg, TRUE, leveled /\ lvl >= WARNING)

\* LOGGER(category).Log(lvl, source, message): Filter.Log
CallLogSource(p, category, lvl, msg) == IntLog(p, category, lvl, msg, FALSE, FALSE)

\* default_filter.LogWrite(rec): c.w <- rec completes
SendDefault(p) ==
    /\ ~exited
    /\ pc[p] = "toDefault"
    /\ CanSend(cw)
    /\ cw' = Send(cw, pend[p].rec)
    /\ pc' = [pc EXCEPT ![p] = AfterDefault(Global, pend[p].f)]
    /\ pend' = [pend EXCEPT ![p] = IF AfterDefault(Global, pend[p].f) = "idle" THEN NoCall ELSE @]
    /\ UNCHANGED <<w, rec, closed, run, fs, now, nsub, exited, cout, Global, hist, heap, formatCache>>

\* f.LogWrite(rec) on the Filter's own sink, the file sink: w.rec <- rec completes
SendOwn(p) ==
    /\ ~exited
    /\ pc[p] = "toOwn"
    /\ ~closed
    /\ CanSend(rec)
    /\ rec' = Send(rec, pend[p].rec)
    /\ pc' = [pc EXCEPT ![p] = "idle"]
    /\ pend' = [pend EXCEPT ![p] = NoCall]
    /\ hist' = [hist EXCEPT !.sent = @ \cup {Id(pend[p].rec)}]
    /\ UNCHANGED <<w, closed, run, fs, now, nsub, exited, cw, cout, Global, heap, formatCache>>

\* ConsoleLogWriter.run: for rec := range c.w { fmt.Fprint(out, FormatLogRecord(c.format, rec)) }
ConsoleRun ==
    /\ ~exited
    /\ cw # <<>>
    /\ cout' = Append(cout, FormatLogRecord(Current(heap, Receive(cw))))
    /\ cw' = Received(cw)
    /\ formatCache' = Refresh(formatCache, heap[Id(Receive(cw))].Created)
    /\ heap' = Collect(heap, rec, Received(cw), pend)
    /\ UNCHANGED <<w, rec, closed, run, fs, now, pc, pend, nsub, exited, Global, hist>>

-----------------------------------------------------------------------------
(* Inputs *)

Messages == {<<"a">>}
Faults == {"none", "rename", "open", "write"}
PassFaults == {"none", "rename", "open"}

\* what earlier runs may have left in the directory
OldFile(d) == File(<<OldLine>>, d)
InitDirs ==
    {EmptyDir}
    \cup {DirOf({Live}, OldFile(0))}
    \cup {DirOf({Live, CountName(1)}, OldFile(0))}
    \cup {DirOf({Live, DailyName(0, 1)}, OldFile(0))}

-----------------------------------------------------------------------------------------------------------------------------------------------------
(* SpecQueue: producers, the channel and the consumer of one file sink     *)
(* that keeps count-named backups and rotates every second line.           *)

InitQueue ==
    /\ InitCommon
    /\ Global = NoRegistry
    /\ now = 0
    /\ fs = EmptyDir

NextQueue ==
    \/ NewFileLogWriter(TRUE, FALSE, 3, "none")
    \/ SetRotateLines(2)
    \/ \E p \in Producers, m \in Messages : CallLogWrite(p, m)
    \/ \E p \in Producers : LogWrite(p)
    \/ \E p \in Producers : SendOnClosed(p)
    \/ \E p \in Producers : CallRotate(p)
    \/ \E p \in Producers, f \in PassFaults : ConsumeRot(p, f)
    \/ \E f \in Faults : ConsumeRec(f)
    \/ ConsumeClosed
    \/ Close
    \/ Exit

SpecQueue == InitQueue /\ [][NextQueue]_vars

-----------------------------------------------------------------------------
(* What the properties read *)

IsRecord(line) == line.p >= 1
RecordsOf(lines) == SelectSeq(lines, IsRecord)
IdsOf(lines) == {Id(lines[k]) : k \in 1..Len(lines)}
IsPrefix(a, b) == Len(a) <= Len(b) /\ SubSeq(b, 1, Len(a)) = a

\* the i of one producer's records never decreases along the sequence
InOrder(lines) ==
    \A j, k \in 1..Len(lines) :
        (j < k /\ lines[j].p = lines[k].p /\ lines[j].p >= 1) => lines[j].i < lines[k].i

TopIndex(dir) ==
    LET idx == {n.seq : n \in {m \in DOMAIN dir : m.kind = "count"}}
    IN  IF idx = {} THEN 0 ELSE CHOOSE k \in idx : \A j \in idx : j <= k

\* the count-named backups from the oldest (highest number) down to name.1
RECURSIVE BackupLines(_, _)
BackupLines(dir, k) ==
    IF k < 1 THEN <<>>
    ELSE (IF Exists(dir, CountName(k)) THEN dir[CountName(k)].lines ELSE <<>>)
         \o BackupLines(dir, k - 1)

\* the sink's output: oldest backup first, live file last
Output(dir) ==
    BackupLines(dir, TopIndex(dir))
    \o (IF Exists(dir, Live) THEN dir[Live].lines ELSE <<>>)

\* the records every file holds
AllIds(dir) == UNION {IdsOf(RecordsOf(dir[n].lines)) : n \in DOMAIN dir}

RecordLines(dir) == [n \in DOMAIN dir |-> RecordsOf(dir[n].lines)]

-----------------------------------------------------------------------------
(* Properties of SpecQueue *)

\* C1: the consumer writes the records of one producer in the order the
\* producer passed them to LogWrite, and the output read from the oldest
\* backup to the live file keeps that order, across rotations and with other
\* producers sending concurrently.
C1_ProducerOrder ==
    /\ InOrder(hist.written)
    /\ InOrder(Output(fs))

\* reached: one producer's first record is in a backup, its second in the live
\* file, and another producer's record was written too
C1_Witness ==
    \E p \in Producers :
        /\ Exists(fs, CountName(1)) /\ Exists(fs, Live)
        /\ [p |-> p, i |-> 1] \in IdsOf(fs[CountName(1)].lines)
        /\ [p |-> p, i |-> 2] \in IdsOf(fs[Live].lines)
        /\ \E k \in 1..Len(hist.written) : hist.written[k].p # p

\* C2: every record whose LogWrite returned before Close is in the sink's
\* final output, the files as they are when the process has ended.
C2_CloseDrains ==
    exited => hist.sent \subseteq AllIds(fs)

\* C3: the channel never holds more than LogBufferLength records; a LogWrite
\* returns only by appending its record to a channel that had room; the
\* channel changes only by such an append or by the consumer taking its head.
C3_Backpressure ==
    [][/\ Len(rec') <= LogBufferLength
       /\ \A p \in Producers :
            (pc[p] = "LogWrite" /\ pc'[p] = "idle") =>
                (Len(rec) < LogBufferLength /\ rec' = Append(rec, pend[p].rec))
       /\ rec' # rec =>
            \/ rec # <<>> /\ rec' = Tail(rec)
            \/ \E p \in Producers : pc[p] = "LogWrite" /\ rec' = Append(rec, pend[p].rec)
      ]_vars

\* reached: a producer waits in LogWrite on a full channel of a live consumer
C3_Witness ==
    \E p \in Producers :
        pc[p] = "LogWrite" /\ Len(rec) = LogBufferLength /\ ~closed /\ run = "running"

\* C4: after the construction every access to the sink's fields is made by
\* the consumer goroutine: no other task has touched a field.
C4_Confinement ==
    hist.touched = {}

-----------------------------------------------------------------------------
(* SpecDispatch: producers log through LOGGER("Test") and LOGGER("Other"); *)
(* the registry holds the console Filter "stdout" and the file Filter      *)
(* "Test".                                                                 *)

Registry(consoleLevel, fileLevel) ==
    [c \in {"stdout", "Test"} |->
        IF c = "stdout" THEN Filter(consoleLevel, "console", "DEFAULT")
        ELSE Filter(fileLevel, "file", "Test")]

InitDispatch ==
    /\ InitCommon
    /\ now = 0
    /\ fs = EmptyDir
    /\ Global \in {Registry(cl, DEBUG) : cl \in {DEBUG, WARNING}}

NextDispatch ==
    \/ NewFileLogWriter(FALSE, FALSE, 0, "none")
    \/ \E p \in Producers, c \in {"Test", "Other"}, l \in {FINEST, INFO, ERROR}, m \in Messages :
          CallLog(p, c, l, m)
    \/ \E p \in Producers : SendDefault(p)
    \/ \E p \in Producers : SendOwn(p)
    \/ ConsoleRun
    \/ \E p \in Producers : CallRotate(p)
    \/ \E p \in Producers, f \in PassFaults : ConsumeRot(p, f)
    \/ \E f \in Faults : ConsumeRec(f)

SpecDispatch == InitDispatch /\ [][NextDispatch]_vars

\* C6: after the consumer of one sink has ended on an I/O error, a logging
\* call that sends to that sink can still complete: it is not left waiting
\* on a full channel that nobody receives from.
C6_CallsStillReturn ==
    \A p \in Producers :
        (run = "failed" /\ pc[p] = "toOwn") => CanSend(rec)

-----------------------------------------------------------------------------
(* SpecLines: a sink that rotates every second line, started in an empty   *)
(* directory or beside the file of an earlier run, no clock and no faults. *)

InitLines ==
    /\ InitCommon
    /\ Global = NoRegistry
    /\ now = 0
    /\ fs \in {EmptyDir, DirOf({Live}, OldFile(0)), DirOf({Live, CountName(1)}, OldFile(0))}

NextLines ==
    \/ \E r \in BOOLEAN, d \in BOOLEAN, mb \in {0, 1, 2, 3} : NewFileLogWriter(r, d, mb, "none")
    \/ SetRotateLines(2)
    \/ SetHeadFoot(TRUE, TRUE)
    \/ \E p \in Producers, m \in Messages : CallLogWrite(p, m)
    \/ \E p \in Producers : LogWrite(p)
    \/ ConsumeRec("none")

SpecLines == InitLines /\ [][NextLines]_vars

Backups(dir) == DOMAIN dir \ {Live}
WrittenIds(lines) == [k \in 1..Len(RecordsOf(lines)) |-> Id(RecordsOf(lines)[k])]

\* the result the claim gives for maxlines = 2 and three records
TwoAndOne ==
    /\ Exists(fs, Live)
    /\ WrittenIds(fs[Live].lines) = SubSeq(hist.written, 3, 3)
    /\ \E b \in Backups(fs) : WrittenIds(fs[b].lines) = SubSeq(hist.written, 1, 2)

Pass == hist'.passes = hist.passes + 1

\* C9: a count-named rotation with maxbackup >= 1 moves name.N to name.N+1 for
\* N = maxbackup-1 .. 1, then the live file to name.1, and leaves no backup
\* numbered above maxbackup.
C9_CountChain ==
    [][(/\ Pass
        /\ w'.rotate /\ ~w'.daily /\ w'.maxbackup >= 1
        /\ Exists(fs, Live))
       =>
       (/\ Exists(fs', CountName(1))
        /\ RecordsOf(fs'[CountName(1)].lines) = RecordsOf(fs[Live].lines)
        /\ \A n \in 1..(w'.maxbackup - 1) :
              Exists(fs, CountName(n)) =>
                  Exists(fs', CountName(n + 1)) /\ fs'[CountName(n + 1)] = fs[CountName(n)]
        /\ \A b \in Backups(fs') : b.kind = "count" => b.seq <= w'.maxbackup)
      ]_vars

\* the same for maxbackup >= 2
C9_CountChainFromTwo ==
    [][(/\ Pass
        /\ w'.rotate /\ ~w'.daily /\ w'.maxbackup >= 2
        /\ Exists(fs, Live))
       =>
       (/\ Exists(fs', CountName(1))
        /\ RecordsOf(fs'[CountName(1)].lines) = RecordsOf(fs[Live].lines)
        /\ \A n \in 1..(w'.maxbackup - 1) :
              Exists(fs, CountName(n)) =>
                  Exists(fs', CountName(n + 1)) /\ fs'[CountName(n + 1)] = fs[CountName(n)]
        /\ \A b \in Backups(fs') : b.kind = "count" => b.seq <= w'.maxbackup)
      ]_vars

-----------------------------------------------------------------------------
(* SpecDaily: a daily sink, the clock, what an earlier run left behind, one *)
(* goroutine that logs and one that asks for rotations                     *)

InitDaily ==
    /\ InitCommon
    /\ Global = NoRegistry
    /\ now = 0
    /\ fs \in {EmptyDir, DirOf({Live}, OldFile(0)), DirOf({Live, DailyName(0, 1)}, OldFile(0))}

NextDaily ==
    \/ Tick
    \/ \E r \in BOOLEAN, mb \in {2, 3} : NewFileLogWriter(r, TRUE, mb, "none")
    \/ SetHeadFoot(TRUE, TRUE)
    \/ \E m \in Messages : CallLogWrite(1, m)
    \/ LogWrite(1)
    \/ CallRotate(NProducers)
    \/ ConsumeRot(NProducers, "none")
    \/ ConsumeRec("none")

SpecDaily == InitDaily /\ [][NextDaily]_vars

\* the construction of a sink: NewFileLogWriter has just returned it
Constructed == run = "unborn" /\ run' = "running"

\* the live file has been renamed to a backup that carries date d
RenamedWithDate(d) ==
    \E b \in Backups(fs') :
        /\ b.kind = "daily" /\ b.date = d
        /\ fs'[b] = fs[Live]

\* the sink starts a fresh live file opened today
FreshToday ==
    /\ Exists(fs', Live)
    /\ fs'[Live] = File(<<>>, now)
    /\ w'.file = "open"
    /\ w'.daily_opendate = DayOf(now)

C10_SeqFromOne ==
    SinkBuilt =>
        \A b \in Backups(fs) : b.kind = "daily" => (1 <= b.seq /\ b.seq <= w.maxbackup)

\* the counter a sink starts with: the first number free for today's date
FirstFreeToday(dir, day, maxbackup) ==
    LET free == {k \in 1..(maxbackup - 1) : ~Exists(dir, DailyName(day, k))}
    IN  IF free = {} THEN 1 ELSE CHOOSE k \in free : \A j \in free : k <= j

\* C10 amended: a daily rotation names the backup with the renamed file's
\* modification date; on the same day of the month as today the number is
\* the sink's counter, which then advances by one and wraps to 1 when it
\* reaches maxbackup; on another day (a rollover) the number is 0 and the
\* counter is reset to 1.  The counter stays within 1..maxbackup.
C10_DailySequence ==
    [][(Pass /\ w'.daily /\ w'.rotate /\ Exists(fs, Live))
       =>
       LET mb == w'.maxbackup
           cb == IF run = "unborn" THEN FirstFreeToday(fs, now, mb) ELSE w.currbackup
           mod == IF w.file = "open" /\ w.trailer THEN now ELSE fs[Live].mtime
           rollover == DayOf(now) # DayOf(mod)
           name == DailyName(mod, IF rollover THEN 0 ELSE cb)
       IN  /\ Exists(fs', name)
           /\ RecordsOf(fs'[name].lines) = RecordsOf(fs[Live].lines)
           /\ fs'[name].mtime = mod
           /\ w'.currbackup = IF rollover THEN 1
                              ELSE IF cb + 1 >= mb THEN 1 ELSE cb + 1
           /\ 1 <= w'.currbackup /\ w'.currbackup <= mb
      ]_vars

\* reached: a record written after midnight made the sink rotate, the backup
\* took number 0 and the counter is back at 1
C10_Witness ==
    /\ hist.last.by = "rec" /\ hist.last.moved
    /\ hist.last.target.kind = "daily" /\ hist.last.target.seq = 0
    /\ w.currbackup = 1
    /\ Exists(fs, hist.last.target)

\* reached: a rotation on the same day wrapped the counter back to 1
C10_WitnessWrap ==
    /\ hist.last.moved /\ hist.last.target.kind = "daily"
    /\ hist.last.target.seq = w.maxbackup - 1 /\ hist.last.target.seq > 1
    /\ w.currbackup = 1

-----------------------------------------------------------------------------
(* SpecBackups: a sink that keeps backups, started beside the live file and *)
(* any set of backups that earlier runs have left, each with its own text  *)

MaxLeft == 3

\* a file left by an earlier run; k tells the files apart
LeftFile(k) == File(<<[p |-> 0, i |-> 2 + k, text |-> <<"o", NL>>]>>, 0)

LeftDir(names) ==
    [n \in names \cup {Live} |-> IF n = Live THEN OldFile(0) ELSE LeftFile(n.seq)]

InitBackups ==
    /\ InitCommon
    /\ Global = NoRegistry
    /\ now = 0
    /\ \/ \E left \in SUBSET (1..MaxLeft) : fs = LeftDir({CountName(k) : k \in left})
       \/ \E left \in SUBSET (1..MaxLeft) : fs = LeftDir({DailyName(0, k) : k \in left})

NextBackups ==
    \/ \E d \in BOOLEAN, mb \in {3, 4} : NewFileLogWriter(TRUE, d, mb, "none")
    \/ \E m \in Messages : CallLogWrite(1, m)
    \/ LogWrite(1)
    \/ CallRotate(NProducers)
    \/ ConsumeRot(NProducers, "none")
    \/ ConsumeRec("none")

SpecBackups == InitBackups /\ [][NextBackups]_vars

\* the backups that share the naming policy (and the date) of backup b
Siblings(dir, b) == {c \in Backups(dir) : c.kind = b.kind /\ c.date = b.date}

\* the most backups a policy keeps: name.1 .. name.maxbackup under count
\* naming, name.date.1 .. name.date.(maxbackup-1) under daily naming
Cap(b, maxbackup) == IF b.kind = "count" THEN maxbackup ELSE maxbackup - 1

\* what backup b held is still held by a backup after the step
Kept(b) == \E c \in Backups(fs') : fs'[c] = fs[b]

\* C11: a rotation pass destroys the content of no existing backup, unless
\* the backups of its policy have reached the cap (an eviction).
C11_NoClobber ==
    [][Pass =>
         \A b \in Backups(fs) :
             Kept(b) \/ Cardinality(Siblings(fs, b)) >= Cap(b, w'.maxbackup)
      ]_vars

-----------------------------------------------------------------------------
(* SpecRotate: callers that ask for a rotation and then log; the sink is   *)
(* built with or without backups                                          *)

InitRotate ==
    /\ InitCommon
    /\ Global = NoRegistry
    /\ now = 0
    /\ fs \in {EmptyDir, DirOf({Live}, OldFile(0))}

NextRotate ==
    \/ \E r \in BOOLEAN : NewFileLogWriter(r, FALSE, 3, "none")
    \/ \E p \in Producers, m \in Messages : CallLogWrite(p, m)
    \/ \E p \in Producers : LogWrite(p)
    \/ \E p \in Producers : CallRotate(p)
    \/ \E p \in Producers, f \in PassFaults : ConsumeRot(p, f)
    \/ ConsumeRec("none")

SpecRotate == InitRotate /\ [][NextRotate]_vars

\* the step writes one record
WritesOne == Len(hist'.written) = Len(hist.written) + 1
\* the record the step writes
JustWritten == hist'.written[Len(hist'.written)]

\* the record the step writes was created by the caller of the returned
\* Rotate() m after that return
AfterRotate(m) == WritesOne /\ JustWritten.p = m.p /\ JustWritten.i > m.n

\* the record lands in the live file, which holds none of the records that
\* were written before the Rotate() m returned
IntoNewFile(m) ==
    /\ Exists(fs', Live)
    /\ JustWritten \in IdsOf(fs'[Live].lines)
    /\ \A j \in 1..m.k : hist.written[j] \notin IdsOf(fs'[Live].lines)

\* the step in which a Rotate() returns and its pass runs writes no record
\* and takes none from the channel
PassAlone == hist'.marks # hist.marks => (hist'.written = hist.written /\ rec' = rec)

-----------------------------------------------------------------------------
(* SpecSanitize: the loginjection example: a sink without rotation in an   *)
(* empty directory, SetSanitize(true), messages that hold newlines         *)

InjectionMessages == {<<"a">>, <<"a", NL, "b">>, <<NL, NL>>}

InitSanitize ==
    /\ InitCommon
    /\ Global = NoRegistry
    /\ now = 0
    /\ fs = EmptyDir

NextSanitize ==
    \/ NewFileLogWriter(FALSE, FALSE, 0, "none")
    \/ SetSanitize(TRUE)
    \/ \E p \in Producers, m \in InjectionMessages : CallLogWrite(p, m)
    \/ \E p \in Producers : LogWrite(p)
    \/ ConsumeRec("none")

SpecSanitize == InitSanitize /\ [][NextSanitize]_vars

\* the number of newline characters in a text
RECURSIVE Newlines(_)
Newlines(text) ==
    IF text = <<>> THEN 0
    ELSE (IF Head(text) = NL THEN 1 ELSE 0) + Newlines(Tail(text))

\* the number of lines a file holds
RECURSIVE LineCount(_)
LineCount(lines) ==
    IF lines = <<>> THEN 0 ELSE Newlines(Head(lines).text) + LineCount(Tail(lines))

\* C13: with sanitize enabled every record is stored as one line, its
\* newlines replaced by backslash and n, and the file holds as many lines as
\* records were written, whatever the messages.
C13_OneLinePerRecord ==
    (w.sanitize /\ Exists(fs, Live)) =>
        /\ \A k \in 1..Len(fs[Live].lines) :
              LET text == fs[Live].lines[k].text
              IN  Newlines(text) = 1 /\ text[Len(text)] = NL
        /\ LineCount(fs[Live].lines) = Len(hist.written)

\* reached: a sanitizing sink has written a message that held a newline, and
\* another record
C13_Witness ==
    /\ w.sanitize /\ Exists(fs, Live)
    /\ Len(hist.written) >= 2
    /\ \E k \in 1..Len(fs[Live].lines) : fs[Live].lines[k].text = <<"a", "\\", "n", "b", NL>>

-----------------------------------------------------------------------------
(* SpecRules: logging calls of the three kinds through LOGGER, under the   *)
(* registries a configuration file can load: the console enabled or not,   *)
(* the file sink registered under the category "Test" or "DEFAULT"; one   *)
(* goroutine makes the calls                                               *)

\* LoadJsonConfiguration: log["stdout"] when the console is enabled, and
\* log[fc.Category] for the file
RegistryOf(console, consoleLevel, fileCategory, fileLevel) ==
    [c \in (IF console THEN {"stdout"} ELSE {}) \cup {fileCategory} |->
        IF c = fileCategory THEN Filter(fileLevel, "file", fileCategory)
        ELSE Filter(consoleLevel, "console", "DEFAULT")]

InitRules ==
    /\ InitCommon
    /\ now = 0
    /\ fs = EmptyDir
    /\ Global \in {RegistryOf(console, cl, fc, DEBUG) :
                     console \in BOOLEAN, cl \in {DEBUG, WARNING}, fc \in {"Test", "DEFAULT"}}

Categories == {"Test", "Other", "DEFAULT"}
Levels == {FINEST, DEBUG, INFO, WARNING}

NextRules ==
    \/ NewFileLogWriter(FALSE, FALSE, 0, "none")
    \/ \E c \in Categories, l \in Levels, m \in Messages : CallLog(1, c, l, m)
    \/ \E c \in Categories, l \in Levels, m \in Messages, leveled \in BOOLEAN :
          CallLogc(1, c, l, m, leveled)
    \/ \E c \in Categories, l \in Levels, m \in Messages : CallLogSource(1, c, l, m)
    \/ SendDefault(1)
    \/ SendOwn(1)
    \/ ConsoleRun
    \/ ConsumeRec("none")

SpecRules == InitRules /\ [][NextRules]_vars

\* producer p's call has passed the gate and built its record in this step
Builds(p) == nsub'[p] = nsub[p] + 1 /\ hist'.fault = "none"

\* the sink of Filter f is not the default sink
OwnSinkIsNotDefault(reg, f) == reg[f].sink # reg["stdout"].sink

\* C14: a record that passed the gate is enqueued to the default sink iff
\* its level is strictly above the default sink's threshold, and to the
\* resolved Filter's own sink iff that sink is not the default sink.
C14_DispatchRule ==
    [][\A p \in Producers :
         /\ Builds(p) =>
              /\ pc'[p] = "toDefault" <=> pend'[p].rec.lvl > Global'["stdout"].Level
              /\ pc'[p] # "toDefault" =>
                    (pc'[p] = "toOwn" <=> OwnSinkIsNotDefault(Global', pend'[p].f))
         /\ (pc[p] = "toDefault" /\ pc'[p] # "toDefault") =>
              /\ cw' = Append(cw, pend[p].rec)
              /\ pc'[p] = "toOwn" <=> OwnSinkIsNotDefault(Global, pend[p].f)
         /\ (pc[p] = "toOwn" /\ pc'[p] # "toOwn") => rec' = Append(rec, pend[p].rec)
      ]_vars

\* producer p's call builds an INFO record through a registered category
\* whose threshold is DEBUG
BuildsInfo(p) ==
    /\ Builds(p)
    /\ pend'[p].rec.lvl = INFO
    /\ Global'[pend'[p].f].Level = DEBUG

\* producer p holds such a record, not yet sent to every sink it goes to
HoldsInfo(p) ==
    /\ pc[p] \in {"toDefault", "toOwn"}
    /\ pend[p].rec.lvl = INFO
    /\ Global[pend[p].f].Level = DEBUG

NoDuplicate(queue) == Cardinality(IdsOf(queue)) = Len(queue)

\* C15 as stated: with the default sink's threshold at WARNING, the INFO
\* record is written to the default sink and to the category's own sink
C15_DuplicationAsStated ==
    [][\A p \in Producers :
         (BuildsInfo(p) /\ Global'["stdout"].Level = WARNING) => pc'[p] = "toDefault"
      ]_vars

\* C15: an INFO record logged through a registered category named neither
\* "DEFAULT" nor "stdout", whose threshold is DEBUG, is enqueued once to the
\* category's own sink; it is enqueued to the default sink, once and before
\* that, only if the default sink's threshold is below INFO: with the
\* threshold at WARNING the default sink does not get it.
C15_Duplication ==
    [][\A p \in Producers :
         /\ (BuildsInfo(p) /\ pend'[p].f \notin {"DEFAULT", "stdout"}) =>
              /\ pc'[p] = IF Global'["stdout"].Level < INFO THEN "toDefault" ELSE "toOwn"
              /\ cw' = cw /\ rec' = rec
         /\ (HoldsInfo(p) /\ pend[p].f \notin {"DEFAULT", "stdout"} /\ pc'[p] # pc[p]) =>
              IF pc[p] = "toDefault"
              THEN cw' = Append(cw, pend[p].rec) /\ rec' = rec /\ pc'[p] = "toOwn"
              ELSE rec' = Append(rec, pend[p].rec) /\ cw' = cw /\ pc'[p] = "idle"
         /\ NoDuplicate(cw') /\ NoDuplicate(rec') /\ NoDuplicate(cout')
         /\ NoDuplicate(hist'.written)
      ]_vars

\* reached: an INFO record of the category "Test" that the console has
\* printed is about to be sent to the file sink
C15_Witness ==
    /\ HoldsInfo(1) /\ pc[1] = "toOwn" /\ pend[1].f = "Test"
    /\ Global["stdout"].Level = DEBUG
    /\ Id(pend[1].rec) \in IdsOf(cout)
    /\ CanSend(rec) /\ ~closed

\* C16: LOGGER never fails, whatever the category and the configuration:
\* a registered category yields its Filter with Category set to the
\* requested name, an unregistered one the "stdout" Filter with Category
\* "DEFAULT", and the logging call on that Filter completes without a fault.
C16_SilentFallback ==
    [][/\ hist'.fault = "none"
       /\ \A p \in Producers :
            Builds(p) =>
                LET f == pend'[p].f
                IN  /\ f \in DOMAIN Global'
                    /\ Global'[f].Category \in (IF f = "stdout" THEN {"DEFAULT", "stdout"} ELSE {f})
                    /\ pend'[p].rec.cat = Global'[f].Category
      ]_vars

-----------------------------------------------------------------------------
(* SpecShared: the console and a sanitizing file sink registered under     *)
(* "Test"; a record above the console's threshold is sent to both; one    *)
(* goroutine makes the calls                                               *)

InitShared ==
    /\ InitCommon
    /\ now = 0
    /\ fs = EmptyDir
    /\ Global = RegistryOf(TRUE, DEBUG, "Test", DEBUG)

NextShared ==
    \/ NewFileLogWriter(FALSE, FALSE, 0, "none")
    \/ \E s \in BOOLEAN : SetSanitize(s)
    \/ \E l \in {DEBUG, INFO}, m \in InjectionMessages : CallLog(1, "Test", l, m)
    \/ SendDefault(1)
    \/ SendOwn(1)
    \/ ConsoleRun
    \/ ConsumeRec("none")

SpecShared == InitShared /\ [][NextShared]_vars

\* the console takes a record from its channel and prints it
ConsolePrints == cw # <<>> /\ cw' = Tail(cw) /\ Len(cout') = Len(cout) + 1

\* C17: a LogRecord does not change after its creation and is held by one
\* sink at a time: no record is in the channels of two sinks at once, and the
\* text the console prints for a record is the text of the record as it was
\* created, whether or not the file sink has processed the record already.
C17_Ownership ==
    [][/\ IdsOf(cw') \cap IdsOf(rec') = {}
       /\ ConsolePrints => cout'[Len(cout')] = FormatLogRecord(Head(cw))
       /\ \A id \in DOMAIN heap \cap DOMAIN heap' : heap'[id] = heap[id]
      ]_vars

-----------------------------------------------------------------------------
(* SpecFormat: calls of FormatLogRecord, one after the other, on records   *)
(* created in the same second or not, in the same zone or not; the build   *)
(* has one of the two FormatLogRecord                                      *)

InitFormat ==
    /\ InitCommon
    /\ now = 0
    /\ fs = EmptyDir
    /\ Global = NoRegistry

\* FormatLogRecord(format, rec): cout keeps the call and the text returned
Format(variant, format, r, max) ==
    /\ Len(cout) < max
    /\ cout # <<>> => cout[1].variant = variant
    /\ LET res == FormatLogRecordIn(variant, format, r, formatCache)
       IN  /\ cout' = Append(cout, [variant |-> variant, format |-> format, rec |-> r,
                                    text |-> res.out])
           /\ formatCache' = res.cache
    /\ UNCHANGED <<w, rec, closed, run, fs, now, pc, pend, nsub, exited, cw, Global, hist, heap>>

\* patterns that print what the cache holds
ClockPatterns(variant) ==
    IF variant = "pattlog" THEN {<<"%", "T">>} ELSE {<<"%", "o">>, <<"%", "z">>}

\* instants of the seconds 1 and 2, with a fraction and in a zone
Instants == {Instant(1, 0, 0), Instant(1, 1, 0), Instant(1, 0, 1), Instant(2, 0, 0)}

NextFormat ==
    \E variant \in {"pattlog", "termlog"} :
      \E format \in ClockPatterns(variant), t \in Instants :
        Format(variant, format, Rec(INFO, <<"a">>, "Test", t), MaxCalls)

SpecFormat == InitFormat /\ [][NextFormat]_vars

\* the call made in this step
Renders == Len(cout') = Len(cout) + 1
Call == cout'[Len(cout')]

\* the text with the strings of the record's own Created, no cache involved
Uncached(call) == FormatLogRecordIn(call.variant, call.format, call.rec, Fill(call.rec.Created)).out

\* C18: every FormatLogRecord call of a sequence that starts with the empty
\* cache returns the text that rendering the pattern and the record without
\* a cache gives, and two calls with the same pattern and record return the
\* same text.
C18_CacheDeterminism ==
    [][Renders =>
         /\ Call.text = Uncached(Call)
         /\ \A k \in 1..Len(cout) :
              (cout[k].format = Call.format /\ cout[k].rec = Call.rec) => cout[k].text = Call.text
      ]_vars

-----------------------------------------------------------------------------
(* SpecUnknown: FormatLogRecord of pattlog.go on patterns with directives  *)
(* the switch does not know                                                *)

Hello == <<"h", "e", "l", "l", "o">>

UnknownPatterns ==
    {<<>>,
     <<"[", "%", "Q", "]", " ", "%", "M">>,
     <<"%", "Q">>,
     <<"%", "q", "x", "%", "M">>,
     <<"a", "%">>,
     <<"%", "%", "M">>,
     <<"%", "L", "-", "%", "Z", "%", "s">>,
     <<"%", "D", "{", "x", "}", "%", "Z">>}

NextUnknown ==
    \E format \in UnknownPatterns, msg \in {Hello, <<"a">>} :
        Format("pattlog", format, Rec(INFO, msg, "Test", Instant(1, 0, 0)), MaxRenders)

SpecUnknown == InitFormat /\ [][NextUnknown]_vars

\* the pattern without the pairs of a "%" and an unknown character other
\* than "%"
RECURSIVE Erase(_, _)
Erase(variant, format) ==
    IF format = <<>> THEN <<>>
    ELSE IF Len(format) >= 2 /\ format[1] = "%" /\ format[2] \notin Known(variant) \cup {"%"}
    THEN Erase(variant, SubSeq(format, 3, Len(format)))
    ELSE <<Head(format)>> \o Erase(variant, Tail(format))

\* the text ends with one appended newline and has no other
OneNewline(text) == text # <<>> /\ text[Len(text)] = NL /\ Newlines(text) = 1

BracketQ == <<"[", "%", "Q", "]", " ", "%", "M">>
BracketHello == <<"[", "]", " ">> \o Hello \o <<NL>>

\* what the claim says of one call
DropsUnknown(call) ==
    /\ LET erased == Erase(call.variant, call.format)
       IN  call.text = IF erased = <<>> THEN <<NL>>
                       ELSE FormatLogRecordIn(call.variant, erased, call.rec, formatCache').out
    /\ OneNewline(call.text)
    /\ (call.format = BracketQ /\ call.rec.Message = Hello) => call.text = BracketHello

\* C20 as stated: for every pattern, an unknown directive writes nothing,
\* the text after it is written, and the result ends with one appended newline
C20_UnknownAsStated ==
    [][Renders => DropsUnknown(Call)]_vars

\* C20: for every pattern that is not empty, a "%" followed by a character
\* other than "%" that the switch of pattlog.go does not know writes
\* nothing, the literal text after that character is written, and the result
\* ends with one appended newline; "[%Q] %M" with the message "hello" gives
\* "[] hello\n".  The empty pattern gives the empty text.
C20_UnknownDirectives ==
    [][Renders => IF Call.format = <<>> THEN Call.text = <<>> ELSE DropsUnknown(Call)]_vars

\* reached: "[%Q] %M" was rendered with the message "hello"
C20_Witness ==
    \E k \in 1..Len(cout) :
        /\ cout[k].format = BracketQ /\ cout[k].rec.Message = Hello
        /\ cout[k].text = BracketHello

-----------------------------------------------------------------------------
(* Properties of the rotation pass and of the consumer's bookkeeping *)

\* the step runs a rotation pass that returns no error
PassDone == Pass /\ ~hist'.last.err

\* C21: after a pass of a sink with rotate = false the live file holds
\* nothing that was written before the pass opened it; with rotate = true
\* what the live file held is in a backup.
C21_SetRotate ==
    [][PassDone =>
         IF ~w'.rotate
         THEN \A k \in 1..Len(fs'[Live].lines) : fs'[Live].lines[k] = HeaderLine
         ELSE Exists(fs, Live) =>
                 \E b \in Backups(fs') : IsPrefix(fs[Live].lines, fs'[b].lines)
      ]_vars

-----------------------------------------------------------------------------
(* SpecClose: a sink with a header and a trailer, callers that log, Close, *)
(* and the end of the process; no I/O fault.  The scheduler is fair to the *)
(* consumer goroutine for as long as the process runs.                    *)

NextClose ==
    \/ NewFileLogWriter(TRUE, FALSE, 3, "none")
    \/ SetHeadFoot(TRUE, TRUE)
    \/ \E p \in Producers, m \in Messages : CallLogWrite(p, m)
    \/ \E p \in Producers : LogWrite(p)
    \/ \E p \in Producers : SendOnClosed(p)
    \/ ConsumeRec("none")
    \/ ConsumeClosed
    \/ Close
    \/ Exit

SpecClose ==
    /\ InitQueue
    /\ [][NextClose]_vars
    /\ WF_vars(ConsumeRec("none"))
    /\ WF_vars(ConsumeClosed)

\* the consumer has ended in order: the channel is drained, the handle is
\* released, and the last line of the file is the trailer
Terminated ==
    /\ run = "done"
    /\ rec = <<>>
    /\ w.file = "closed"
    /\ (w.trailer /\ Exists(fs, Live)) =>
          /\ fs[Live].lines # <<>>
          /\ fs[Live].lines[Len(fs[Live].lines)] = TrailerLine

\* C22: after Close() on a sink without I/O failure the consumer eventually
\* takes every record left in the channel, writes the trailer after the last
\* record, releases the file handle and ends; once it has ended the file
\* does not change any more.
C22_CloseTerminates ==
    /\ closed ~> Terminated
    /\ [][run = "done" => fs' = fs]_vars

\* the lines a pass of this step adds: the trailer goes to the handle that
\* was open before the pass, the header to the handle the pass opens
OldLines == IF Exists(fs, Live) THEN fs[Live].lines ELSE <<>>
TrailerOfPass == IF w.file = "open" /\ w'.trailer /\ Exists(fs, Live) THEN <<TrailerLine>> ELSE <<>>
HeaderOfPass == IF w'.header THEN <<HeaderLine>> ELSE <<>>

\* the record line the consumer writes in this step, after its pass
LineOfStep ==
    IF WritesOne THEN <<fs'[Live].lines[Len(fs'[Live].lines)]>> ELSE <<>>

RECURSIVE Bytes(_)
Bytes(lines) == IF lines = <<>> THEN 0 ELSE Len(Head(lines).text) + Bytes(Tail(lines))

-----------------------------------------------------------------------------
(* SpecTrigger: a sink that keeps backups, with or without a line          *)
(* threshold, a size threshold, daily rotation and sanitization; one       *)
(* goroutine logs messages of several sizes, the clock runs, a write may   *)
(* fail                                                                    *)

NextTrigger ==
    \/ Tick
    \/ \E d \in BOOLEAN : NewFileLogWriter(TRUE, d, 3, "none")
    \/ SetRotateLines(2)
    \/ SetRotateSize(4)
    \/ SetSanitize(TRUE)
    \/ \E m \in {<<"a">>, <<"a", NL, "b">>} : CallLogWrite(1, m)
    \/ LogWrite(1)
    \/ \E f \in {"none", "write"} : ConsumeRec(f)

SpecTrigger == InitQueue /\ [][NextTrigger]_vars

\* the consumer takes a record from the channel in this step
Dequeues == rec # <<>> /\ rec' = Tail(rec)

\* the condition of the claim, on the counters and the clock of before the step
Triggered ==
    \/ w.maxlines > 0 /\ w.maxlines_curlines >= w.maxlines
    \/ w.maxsize > 0 /\ w.maxsize_cursize >= w.maxsize
    \/ w.daily /\ DayOf(now) # w.daily_opendate

\* C24: for every record the consumer takes, one rotation pass runs before
\* the record is written if the line threshold, the size threshold or the
\* day change asks for it, none otherwise; a threshold of 0 asks for none.
C24_Trigger ==
    [][Dequeues =>
         /\ hist'.passes = hist.passes + (IF Triggered THEN 1 ELSE 0)
         /\ (Triggered /\ WritesOne) => (w'.maxlines_curlines = 1 /\ hist'.sincePass = 1)
         /\ (w.maxlines = 0 /\ w.maxsize = 0 /\ ~w.daily) => hist'.passes = hist.passes
      ]_vars

\* reached: the size threshold alone has made the consumer rotate before the
\* third record
C24_Witness ==
    /\ hist.last.by = "rec" /\ ~hist.last.err
    /\ w.maxsize > 0 /\ w.maxlines = 0 /\ ~w.daily
    /\ Len(hist.written) = 3 /\ w.maxlines_curlines = 1

\* the record lines of the live file
LiveRecords == IF Exists(fs, Live) THEN RecordsOf(fs[Live].lines) ELSE <<>>

\* C25: while the consumer runs, the line counter is the number of records
\* written to the current file since the last rotation pass and the byte
\* counter is the number of bytes of their lines as written, after
\* sanitization; a write that fails leaves the counters as the pass or the
\* previous write left them.
C25_Counters ==
    [][/\ run' = "running" =>
            /\ w'.maxlines_curlines = hist'.sincePass
            /\ w'.maxlines_curlines = Len(RecordsOf(fs'[Live].lines))
            /\ w'.maxsize_cursize = Bytes(RecordsOf(fs'[Live].lines))
       /\ (Dequeues /\ ~WritesOne) =>
            /\ w'.maxlines_curlines = IF Pass THEN 0 ELSE w.maxlines_curlines
            /\ w'.maxsize_cursize = IF Pass THEN 0 ELSE w.maxsize_cursize
      ]_vars

\* reached: a sanitized line of five bytes and a line of two bytes are in
\* the current file, and the counters say 2 and 7
C25_Witness ==
    /\ run = "running" /\ w.sanitize
    /\ w.maxlines_curlines = 2 /\ w.maxsize_cursize = 7
    /\ Len(LiveRecords) = 2
    /\ \E k \in 1..2 : LiveRecords[k].text = <<"a", "\\", "n", "b", NL>>

\* the day of the month on which the record at the head of the channel was
\* created
DayCreated == DayOf(heap[Id(Head(rec))].Created.secs - 1)

\* C26: the decision to rotate is made on the record's own Created: with
\* daily rotation a record is written into a file whose opened-on day is the
\* day the record was created, however long it waited in the channel.
C26_DailyByRecord ==
    [][(Dequeues /\ WritesOne /\ w'.daily) => w'.daily_opendate = DayCreated]_vars

\* C27: every record that passes the gate of the resolved Filter is
\* enqueued to at least one sink: the call that built it goes on to a send.
C27_NoSilentLoss ==
    [][\A p \in Producers : Builds(p) => pc'[p] \in {"toDefault", "toOwn"}]_vars

\* the bytes of the record lines of a file, the last one left out
BytesBeforeLast(lines) ==
    IF RecordsOf(lines) = <<>> THEN 0
    ELSE Bytes(SubSeq(RecordsOf(lines), 1, Len(RecordsOf(lines)) - 1))

\* C28: with maxsize = S > 0 a record is written only while the byte counter
\* is below S, so the record bytes of a file, between two passes, are at
\* most S - 1 plus the size of the last record written to it.
C28_SizeBound ==
    [][w'.maxsize > 0 =>
         /\ WritesOne => w'.maxsize_cursize - Bytes(LineOfStep) < w'.maxsize
         /\ \A f \in DOMAIN fs' : BytesBeforeLast(fs'[f].lines) <= w'.maxsize - 1
      ]_vars

\* reached: the size threshold alone made the sink rotate, and the backup
\* holds more record bytes than the threshold
C28_Witness ==
    /\ w.maxsize > 0 /\ w.maxlines = 0 /\ ~w.daily
    /\ hist.last.by = "rec" /\ hist.last.moved
    /\ \E b \in Backups(fs) : Bytes(RecordsOf(fs[b].lines)) > w.maxsize


-----------------------------------------------------------------------------
(* SpecRequests: a sink without thresholds and two Rotate() calls, by one  *)
(* caller or by two at once, next to the records of one caller, I/O        *)
(* faults, Close and the end of the process.  The select of the consumer chooses at random among *)
(* its ready cases, so a case that stays ready is eventually chosen: the   *)
(* scheduler is weakly fair to each case of the select.                    *)

NextRequests ==
    \/ NewFileLogWriter(TRUE, FALSE, 3, "none")
    \/ \E m \in Messages : CallLogWrite(1, m)
    \/ LogWrite(1)
    \/ SendOnClosed(1)
    \/ \E p \in Producers : CallRotateUpTo(p, MaxRequests)
    \/ \E p \in Producers, f \in PassFaults : ConsumeRot(p, f)
    \/ \E f \in {"none", "write"} : ConsumeRec(f)
    \/ ConsumeClosed
    \/ Close
    \/ Exit

SpecRequests ==
    /\ InitQueue
    /\ [][NextRequests]_vars
    /\ \A p \in Producers : WF_vars(\E f \in PassFaults : ConsumeRot(p, f))
    /\ WF_vars(\E f \in {"none", "write"} : ConsumeRec(f))
    /\ WF_vars(ConsumeClosed)

\* this step starts a rotation pass that a Rotate() request asked for
OutOfBand == Pass /\ hist'.last.by = "rot"
\* the Rotate() call of p returns in this step
Returns(p) == pc[p] = "Rotate" /\ pc'[p] = "idle"
\* p waits in Rotate() on a sink whose consumer runs and that nobody closed
Requested(p) == pc[p] = "Rotate" /\ run = "running" /\ ~closed

\* one request, one pass: a step starts an out-of-band pass exactly when
\* one waiting Rotate() returns in it, so no call returns before the consumer
\* has taken its request and no pass starts without a call
OneToOne ==
    [][/\ OutOfBand <=> \E p \in Producers : Returns(p)
       /\ \A p, q \in Producers : (Returns(p) /\ Returns(q)) => p = q]_vars

\* C29 as stated: requests and out-of-band passes correspond one to one, and
\* every Rotate() call made while the consumer runs, before Close and without
\* I/O failure, eventually returns.
C29_RequestsAsStated ==
    /\ OneToOne
    /\ \A p \in Producers : Requested(p) ~> (pc[p] = "idle" \/ run = "failed")

\* C29: requests and out-of-band passes correspond one to one, and every
\* Rotate() call made while the consumer runs eventually returns unless an
\* I/O failure happens or Close is called before the consumer has taken the
\* request; no call returns before the consumer has taken its request.
C29_Requests ==
    /\ OneToOne
    /\ \A p \in Producers : Requested(p) ~> (pc[p] = "idle" \/ run = "failed" \/ closed)

\* two requests were made, each was taken in a pass of its own,
\* and both calls have returned
C29_Witness ==
    /\ hist.rotates = 2
    /\ hist.passes = 3
    /\ hist.last.by = "rot"
    /\ \A p \in Producers : pc[p] = "idle"
    /\ run = "running"


\* the consumer has returned from its loop: drained after Close, or stopped
\* by an I/O error
Ended == run \in {"done", "failed"}

\* C30: once the consumer of the sink has terminated, after Close has been
\* drained or after a fatal I/O error, a caller that is in Rotate() stays in
\* it for ever: no step makes the call return, and no pass is started.
C30_RotateAfterEnd ==
    [][Ended => /\ \A p \in Producers : pc[p] = "Rotate" => pc'[p] = "Rotate"
                /\ ~OutOfBand
                /\ Ended']_vars

\* a caller whose first Rotate() returned into a pass that failed on I/O
\* and ended the consumer has called Rotate() again, and waits
C30_Witness ==
    \E p \in Producers :
        /\ run = "failed"
        /\ hist.passes = 2 /\ hist.last.by = "rot" /\ hist.last.err
        /\ \E m \in hist.marks : m.p = p
        /\ hist.rotates = 2
        /\ pc[p] = "Rotate"


-----------------------------------------------------------------------------
(* SpecCache: the consumers of several sinks call FormatLogRecord at the   *)
(* same time.  A call is two steps: the copy of the struct formatCache     *)
(* points to, then the comparison, the refresh with the store of the new   *)
(* pointer, and the rendering, which read the copy only.  pc and pend hold *)
(* the position and the locals of each calling goroutine.  The goroutines  *)
(* format records of different seconds.  formatCache is read and written   *)
(* without synchronisation: a goroutine that reads a struct another one    *)
(* published may find any of its fields still zero.                        *)

\* the Unix seconds of the records goroutine g formats
SecondsOf(g) == {g, g + NProducers}

\* patterns with two directives that print what the cache holds
TwoClockPatterns(variant) ==
    IF variant = "pattlog" THEN {<<"%", "D", " ", "%", "T">>} ELSE {<<"%", "H", "%", "S">>}

\* the struct was published by g itself, or before the goroutines started
Ordered(cache, g) == cache.LastUpdateSeconds = 0 \/ cache.LastUpdateSeconds \in SecondsOf(g)

\* cache := *formatCache read by g: the values the copy may hold
Seen(cache, g) ==
    IF Ordered(cache, g) THEN {cache}
    ELSE {[f \in DOMAIN cache |-> IF f \in S THEN cache[f] ELSE EmptyCache[f]] :
             S \in SUBSET DOMAIN cache}

\* a call that reads the shared struct again after the comparison
SharedNow(copy, shared) == shared

\* after cache := *formatCache the call reads its copy
Private(copy, shared) == copy

\* FormatLogRecord, up to cache := *formatCache
FormatCopy(g, variant, format, r) ==
    /\ pc[g] = "idle"
    /\ Len(cout) + Cardinality({q \in Producers : pc[q] = "FormatLogRecord"}) < MaxCalls
    /\ \A k \in 1..Len(cout) : cout[k].variant = variant
    /\ \A q \in Producers : pc[q] = "FormatLogRecord" => pend[q].variant = variant
    /\ \E seen \in Seen(formatCache, g) :
          pend' = [pend EXCEPT ![g] = [rec |-> r, f |-> "", variant |-> variant,
                                       format |-> format, cache |-> seen]]
    /\ pc' = [pc EXCEPT ![g] = "FormatLogRecord"]
    /\ UNCHANGED <<w, rec, closed, run, fs, now, nsub, exited, cw, cout, Global, hist, heap,
                   formatCache>>

\* FormatLogRecord, from the comparison to the return: cout keeps the call,
\* the text returned, whether the copy was kept, and the key that
\* formatCache holds at the return
FormatReturn(g) ==
    /\ pc[g] = "FormatLogRecord"
    /\ LET call == pend[g]
           hit == call.cache.LastUpdateSeconds = call.rec.Created.secs
           cache == IF hit THEN Private(call.cache, formatCache) ELSE Fill(call.rec.Created)
           pieces == Split(changeDttmFormat(call.format, call.rec.Created, 0))
       IN  /\ formatCache' = IF hit THEN formatCache ELSE Fill(call.rec.Created)
           /\ cout' = Append(cout, [variant |-> call.variant, format |-> call.format,
                                    rec |-> call.rec, g |-> g, hit |-> hit,
                                    shared |-> formatCache'.LastUpdateSeconds,
                                    text |-> RenderPieces(call.variant, pieces, 1, cache, call.rec)
                                             \o <<NL>>])
    /\ pc' = [pc EXCEPT ![g] = "idle"]
    /\ pend' = [pend EXCEPT ![g] = NoCall]
    /\ UNCHANGED <<w, rec, closed, run, fs, now, nsub, exited, cw, Global, hist, heap>>

NextCache ==
    \/ \E g \in Producers, variant \in {"pattlog", "termlog"} :
         \E format \in TwoClockPatterns(variant), secs \in SecondsOf(g) :
           FormatCopy(g, variant, format, Rec(INFO, <<"a">>, "Test", Instant(secs, 0, 0)))
    \/ \E g \in Producers : FormatReturn(g)

SpecCache == InitFormat /\ [][NextCache]_vars

\* C31: when the consumers of several sinks call FormatLogRecord at the
\* same time on records of different seconds, every call returns the text
\* made of the time components of its own record's second, never those of
\* another second nor a mix of two, however the calls interleave.
C31_SnapshotConsistency ==
    [][Renders => Call.text = Uncached(Call)]_vars

\* a call kept its copy, returned the components of its own second, and
\* another goroutine had stored a cache of another second in between
C31_Witness ==
    \E k \in 1..Len(cout) :
        /\ cout[k].hit
        /\ cout[k].shared # cout[k].rec.Created.secs
        /\ cout[k].text = Uncached(cout[k])

====
